---- MODULE Spec2Model ----
(***************************************************************************)
(* A model of py4DSTEM/io/classes/tree.py: the Node / Root / Tree classes  *)
(* that build EMD object trees in memory.                                  *)
(*                                                                         *)
(* Python strings are sequences of one-character tokens, so a path such as *)
(* '/x/y' is <<"/","x","/","y">> and str.split, str.join and list.remove   *)
(* are computed the way Python computes them.  Objects are identified by   *)
(* ids; a Tree is identified with the id of the Node that owns it.         *)
(***************************************************************************)
EXTENDS Integers, Sequences, FiniteSets, TLC

VARIABLES
    live,       \* ids of the Node / Root objects constructed so far
    name,       \* name[n]     : Node.name, a string
    root,       \* root[n]     : Node._root, an id or None
    treepath,   \* treepath[n] : Node._treepath, a string or NoPath
    tree,       \* tree[n]     : Node._tree._dict, an insertion-ordered dict
    metadata,   \* metadata[n] : Node._metadata, bundle name -> bundle id
    bundle,     \* bundle[b]   : the Metadata instance b, or NoBundle
    h5,         \* the groups written into the h5py container, by name
    linelevels, \* the list that is the default of _print_tree_to_screen
    ret         \* the last call: operation, arguments, error and value

vars == <<live, name, root, treepath, tree, metadata, bundle, h5, linelevels,
          ret>>

----------------------------------------------------------------------------
(* Object pools and input sets *)

None == "None"

\* Root instances that exist from the start, Root(name='R') and Root(name='S')
RootIds == {"R", "S"}

\* Root instances that cut_from_tree may construct
NewRootSeq == <<"N1", "N2", "N3">>

NewRootIds == {NewRootSeq[i] : i \in 1..Len(NewRootSeq)}

\* plain Node instances; y2 and z2 carry the same names as y and z
NodeIds == {"x", "y", "z", "y2", "z2"}

\* the plain Nodes a behaviour of Spec works with
SmallPool == {"x", "y", "y2"}

Ids == RootIds \cup NewRootIds \cup NodeIds

\* how many Roots cut_from_tree may construct in one behaviour
MaxNewRoots == 1

\* the name each instance is constructed with
CtorName ==
    [n \in RootIds \cup NodeIds |->
        CASE n = "R" -> <<"R">>
          [] n = "S" -> <<"S">>
          [] n = "x" -> <<"x">>
          [] n \in {"y", "y2"} -> <<"y">>
          [] OTHER -> <<"z">>]

\* _treepath of a Node that was never attached (None in Python)
NoPath == <<"None">>

\* values passed as merge_metadata / root_metadata
Modes == {"True", "False", "copy", "bogus"}

----------------------------------------------------------------------------
(* Python str and list primitives *)

\* s.split('/')
RECURSIVE Split(_)
Split(s) ==
    IF \A i \in 1..Len(s) : s[i] # "/"
    THEN <<s>>
    ELSE LET i == CHOOSE i \in 1..Len(s) :
                      s[i] = "/" /\ \A j \in 1..(i-1) : s[j] # "/"
         IN  <<SubSeq(s, 1, i-1)>> \o Split(SubSeq(s, i+1, Len(s)))

\* '/'.join(l)
RECURSIVE Join(_)
Join(l) ==
    IF Len(l) = 0 THEN <<>>
    ELSE IF Len(l) = 1 THEN l[1]
    ELSE l[1] \o <<"/">> \o Join(Tail(l))

\* v in l
ListHas(l, v) == \E i \in 1..Len(l) : l[i] = v

\* l.remove(v) for a list that holds v: drops the first occurrence
ListRemove(l, v) ==
    LET i == CHOOSE i \in 1..Len(l) :
                 l[i] = v /\ \A j \in 1..(i-1) : l[j] # v
    IN  SubSeq(l, 1, i-1) \o SubSeq(l, i+1, Len(l))

\* l.pop(): the list without its last element
Front(l) == SubSeq(l, 1, Len(l) - 1)

----------------------------------------------------------------------------
(* Tree._dict: an insertion-ordered dict, a sequence of [k, v] entries *)

DictHas(d, k) == \E i \in 1..Len(d) : d[i].k = k

DictGet(d, k) == (d[CHOOSE i \in 1..Len(d) : d[i].k = k]).v

DictKeys(d) == [i \in 1..Len(d) |-> d[i].k]

DictVals(d) == {d[i].v : i \in 1..Len(d)}

\* Tree.__setitem__: an existing key keeps its position, a new one is appended
DictSet(d, k, v) ==
    IF DictHas(d, k)
    THEN [i \in 1..Len(d) |-> IF d[i].k = k THEN [k |-> k, v |-> v] ELSE d[i]]
    ELSE Append(d, [k |-> k, v |-> v])

\* Tree.__delitem__ for a key that is present
DictDel(d, k) ==
    LET i == CHOOSE i \in 1..Len(d) : d[i].k = k
    IN  SubSeq(d, 1, i-1) \o SubSeq(d, i+1, Len(d))

----------------------------------------------------------------------------
(* Results of calls: the exception raised ("none" when the call returns),  *)
(* the value returned, and for a failed lookup the key that was missing    *)

Ok(v) == [err |-> "none", val |-> v, key |-> <<>>]

Raise(e) == [err |-> e, val |-> None, key |-> <<>>]

\* Tree._getitem_from_list on the Tree owned by node t
RECURSIVE Tree_getitem_from_list(_, _, _)
Tree_getitem_from_list(tr, t, x) ==
    IF Len(x) = 0
    THEN Raise("Exception")
    ELSE LET k == Head(x)
             rest == Tail(x)
         IN  IF ~DictHas(tr[t], k)
             THEN [err |-> "AssertionError", val |-> None, key |-> k]
             ELSE IF Len(rest) = 0
                  THEN Ok(DictGet(tr[t], k))
                  ELSE Tree_getitem_from_list(tr, DictGet(tr[t], k), rest)

\* the two l.remove('') calls of Tree.__getitem__, cut short by ValueError
RemoveEmptyTwice(l) ==
    IF ~ListHas(l, <<>>) THEN l
    ELSE LET l1 == ListRemove(l, <<>>)
         IN  IF ~ListHas(l1, <<>>) THEN l1 ELSE ListRemove(l1, <<>>)

\* Tree.__getitem__ that takes the whole string as one key
Tree_getitem_unsplit(tr, t, x) == Tree_getitem_from_list(tr, t, <<x>>)

\* Tree.__getitem__ on the Tree owned by node t
Tree_getitem(tr, t, x) == Tree_getitem_from_list(tr, t, RemoveEmptyTwice(Split(x)))

----------------------------------------------------------------------------
(* Metadata instances.  The Metadata class lives outside tree.py; only its *)
(* name, its content and copy() matter here.                               *)

\* Metadata instances that exist from the start
BundleIds == {"m1", "m2", "m3"}

\* instances that Metadata.copy() may construct, in order of construction
CopyIds == <<"c1", "c2", "c3">>

\* how many instances Metadata.copy() may construct in one behaviour
MaxCopies == 1

\* Metadata instances made by Metadata.from_h5, in the order they are made
LoadIds == <<"d1", "d2", "d3", "d4">>

AllBundleIds ==
    BundleIds \cup {CopyIds[i] : i \in 1..Len(CopyIds)}
              \cup {LoadIds[i] : i \in 1..Len(LoadIds)}

\* the slot of an instance that was not constructed
NoBundle == [name |-> <<>>, data |-> 0 - 1]

\* the name and content each instance is constructed with
CtorBundle ==
    [b \in BundleIds |->
        IF b = "m1" THEN [name |-> <<"a">>, data |-> 0]
                    ELSE [name |-> <<"b">>, data |-> 0]]

\* values a client may store in a Metadata instance
DataVals == {0, 1}

\* copies constructed so far
Copied(bd) == {i \in 1..Len(CopyIds) : bd[CopyIds[i]] # NoBundle}

\* the id of the next instance Metadata.copy() constructs
NextCopy(bd) == CopyIds[Cardinality(Copied(bd)) + 1]

----------------------------------------------------------------------------
(* The heap: every object's fields, plus the outcome of the call in hand *)

Heap ==
    [live |-> live, name |-> name, root |-> root, treepath |-> treepath,
     tree |-> tree, metadata |-> metadata, bundle |-> bundle,
     linelevels |-> linelevels, out |-> <<>>,
     err |-> "none", val |-> None]

Fail(h, e) == [h EXCEPT !.err = e, !.val = None]

\* a setter that keeps the bundle already stored under the name
SetMetadata_keep_first(h, self, x) ==
    IF DictHas(h.metadata[self], h.bundle[x].name) THEN h
    ELSE [h EXCEPT !.metadata[self] = DictSet(@, h.bundle[x].name, x)]

\* Node.metadata setter: self._metadata[x.name] = x
SetMetadata(h, self, x) ==
    [h EXCEPT !.metadata[self] = DictSet(@, h.bundle[x].name, x)]

\* Metadata.copy(): a new instance with the same name and content
CopyBundle(h, b) == [h EXCEPT !.bundle[NextCopy(h.bundle)] = h.bundle[b]]

\* add_to_tree with the assert on node.root made after node is attached
add_to_tree_late_assert(h, self, node) ==
    IF h.root[self] = None THEN Fail(h, "AssertionError")
    ELSE LET h1 == [h EXCEPT !.root[node] = h.root[self]]
             h2 == [h1 EXCEPT !.tree[self] = DictSet(@, h1.name[node], node)]
         IN  IF h.root[node] # None THEN Fail(h2, "AssertionError")
             ELSE [h2 EXCEPT !.treepath[node] =
                       h2.treepath[self] \o <<"/">> \o h2.name[node],
                             !.err = "none", !.val = None]

\* Node.add_to_tree
add_to_tree(h, self, node) ==
    IF h.root[self] = None THEN Fail(h, "AssertionError")
    ELSE IF h.root[node] # None THEN Fail(h, "AssertionError")
    ELSE LET h1 == [h EXCEPT !.root[node] = h.root[self]]
             h2 == [h1 EXCEPT !.tree[self] = DictSet(@, h1.name[node], node)]
         IN  IF h2.treepath[self] = NoPath
             THEN Fail(h2, "TypeError")
             ELSE [h2 EXCEPT !.treepath[node] =
                       h2.treepath[self] \o <<"/">> \o h2.name[node],
                             !.err = "none", !.val = None]

\* Node.get_from_tree
get_from_tree(h, self, x) ==
    IF Len(x) = 0 THEN Raise("IndexError")
    ELSE IF x[1] # "/" THEN Tree_getitem(h.tree, self, x)
    ELSE IF h.root[self] = None THEN Raise("AttributeError")
    ELSE Tree_getitem(h.tree, h.root[self], x)

\* the loops of Node.graft that hand the old root's bundles to the new root;
\* keys is what is left of old_root.metadata.keys()
RECURSIVE MergeLoop(_, _, _, _, _)
MergeLoop(h, keys, old_root, new_root, copy) ==
    IF Len(keys) = 0 THEN h
    ELSE LET b  == DictGet(h.metadata[old_root], Head(keys))
             h1 == IF copy THEN CopyBundle(h, b) ELSE h
             x  == IF copy THEN NextCopy(h.bundle) ELSE b
         IN  MergeLoop(SetMetadata(h1, new_root, x), Tail(keys),
                       old_root, new_root, copy)

\* Node.graft
graft(h, self, node, merge_metadata) ==
    IF h.root[self] = None THEN Fail(h, "AssertionError")
    ELSE IF h.root[node] = None THEN Fail(h, "AssertionError")
    ELSE
    LET old_root  == h.root[self]
        split     == Split(h.treepath[self])
        this_node == split[Len(split)]
        node_list == Front(split)
        upstream  == get_from_tree(h, self, Join(node_list))
    IN  IF upstream.err # "none" THEN Fail(h, upstream.err)
        ELSE IF ~DictHas(h.tree[upstream.val], this_node)
             THEN Fail(h, "KeyError")
        ELSE
        LET h1 == [h EXCEPT !.tree[upstream.val] = DictDel(@, this_node)]
            h2 == [h1 EXCEPT !.root[self] = None]
            h3 == add_to_tree(h2, node, self)
            new_root == h3.root[node]
        IN  IF h3.err # "none" THEN h3
            ELSE IF merge_metadata \notin {"True", "False", "copy"}
                 THEN Fail(h3, "AssertionError")
            ELSE IF merge_metadata = "False"
                 THEN [h3 EXCEPT !.err = "none", !.val = new_root]
            ELSE [MergeLoop(h3, DictKeys(h3.metadata[old_root]), old_root,
                            new_root, merge_metadata # "True")
                     EXCEPT !.err = "none", !.val = new_root]

\* the id of the next Root that cut_from_tree constructs
NextRoot(h) ==
    NewRootSeq[Cardinality({i \in 1..Len(NewRootSeq) : NewRootSeq[i] \in h.live}) + 1]

\* Root.__init__
\* Root.__init__ without the assignment of the path
NewRoot_no_treepath(h, n, nm) ==
    [h EXCEPT !.live = @ \cup {n}, !.name[n] = nm, !.root[n] = n,
              !.treepath[n] = NoPath, !.tree[n] = <<>>, !.metadata[n] = <<>>]

NewRoot(h, n, nm) ==
    [h EXCEPT !.live = @ \cup {n}, !.name[n] = nm, !.root[n] = n,
              !.treepath[n] = <<>>, !.tree[n] = <<>>, !.metadata[n] = <<>>]

\* Node.cut_from_tree; a Root that nothing refers to once the call has
\* raised is not kept
cut_from_tree(h, self, root_metadata) ==
    LET new_root == NextRoot(h)
        g == graft(NewRoot(h, new_root, h.name[self]), self, new_root,
                   root_metadata)
    IN  IF g.err # "none" /\ \A n \in Ids \ {new_root} : g.root[n] # new_root
        THEN Fail(h, g.err)
        ELSE g

----------------------------------------------------------------------------
(* The state after construction: the Roots and Nodes exist, nothing is     *)
(* attached, no bundle is assigned                                         *)

NoCall == [op |-> "none", self |-> None, arg |-> None, mode |-> None,
           err |-> "none", val |-> None]

\* Node.__init__ and Root.__init__
InitWith(pool) ==
    /\ live = RootIds \cup pool
    /\ name = [n \in Ids |-> IF n \in NewRootIds THEN <<>> ELSE CtorName[n]]
    /\ root = [n \in Ids |-> IF n \in RootIds THEN n ELSE None]
    /\ treepath = [n \in Ids |-> IF n \in RootIds THEN <<>> ELSE NoPath]
    /\ tree = [n \in Ids |-> <<>>]
    /\ metadata = [n \in Ids |-> <<>>]
    /\ bundle = [b \in AllBundleIds |->
                    IF b \in BundleIds THEN CtorBundle[b] ELSE NoBundle]
    /\ h5 = <<>>
    /\ linelevels = <<>>
    /\ ret = NoCall

\* the heap h becomes the state, with the call recorded in ret
Commit(h, op, self, arg, mode) ==
    /\ live' = h.live
    /\ name' = h.name
    /\ root' = h.root
    /\ treepath' = h.treepath
    /\ tree' = h.tree
    /\ metadata' = h.metadata
    /\ bundle' = h.bundle
    /\ linelevels' = h.linelevels
    /\ UNCHANGED h5
    /\ ret' = [op |-> op, self |-> self, arg |-> arg, mode |-> mode,
               err |-> h.err, val |-> h.val]

\* the copies a graft of self in mode m constructs
CopiesNeeded(self, m) ==
    IF m \in {"True", "False", "bogus"} \/ root[self] = None THEN 0
    ELSE Len(metadata[root[self]])

CanCopy(self, m) ==
    Cardinality(Copied(bundle)) + CopiesNeeded(self, m) <= MaxCopies

\* self.add_to_tree(node)
AddToTree(self, node) ==
    Commit(add_to_tree(Heap, self, node), "add", self, node, None)

\* self.graft(node, merge_metadata=m)
Graft(self, node, m) ==
    /\ CanCopy(self, m)
    /\ Commit(graft(Heap, self, node, m), "graft", self, node, m)

\* self.cut_from_tree(root_metadata=m)
CutFromTree(self, m) ==
    /\ Cardinality(live \cap NewRootIds) < MaxNewRoots
    /\ CanCopy(self, m)
    /\ Commit(cut_from_tree(Heap, self, m), "cut", self, None, m)

\* a client cuts self from its parent p and at once grafts it back:
\*     self.cut_from_tree(m); self.graft(p, m)
\* (the pair is run in the modes that construct no copies)
CutThenGraft(self, p, m) ==
    /\ Cardinality(live \cap NewRootIds) < MaxNewRoots
    /\ m # "copy"
    /\ self \in DictVals(tree[p])
    /\ LET g == cut_from_tree(Heap, self, m)
       IN  Commit(IF g.err # "none" THEN g ELSE graft(g, self, p, m),
                  "cut+graft", self, p, m)

\* self.metadata = b
AssignMetadata(self, b) ==
    Commit(SetMetadata(Heap, self, b), "metadata", self, b, None)

\* a client changes the content of the Metadata instance b
MutateBundle(b, v) ==
    /\ bundle[b] # NoBundle
    /\ bundle[b].data # v
    /\ bundle' = [bundle EXCEPT ![b].data = v]
    /\ ret' = [NoCall EXCEPT !.op = "mutate", !.arg = b]
    /\ UNCHANGED <<live, name, root, treepath, tree, metadata, h5, linelevels>>

----------------------------------------------------------------------------
(* Spec: tree surgery on deep chains and clashing names.  Three plain      *)
(* Nodes, two of them with the same name, under the Roots R and S.         *)

\* the values of merge_metadata / root_metadata a behaviour of Spec passes
SpecModes == {"True", "bogus"}

Next ==
    \/ \E self \in live, node \in live : AddToTree(self, node)
    \/ \E self \in live, node \in live, m \in SpecModes : Graft(self, node, m)
    \/ \E self \in live, m \in SpecModes : CutFromTree(self, m)
    \/ AssignMetadata("R", "m1")

Init == InitWith(SmallPool)

Spec == Init /\ [][Next]_vars

----------------------------------------------------------------------------
(* SpecMeta: grafts and cuts in every merge mode between Roots that carry  *)
(* metadata.  Two plain Nodes, two bundles, copies, and content changes.   *)

MetaPool == {"x", "y"}

MetaModes == {"True", "False", "copy"}

\* the assignments node.metadata = bundle a behaviour of SpecMeta makes
MetaAssign == {<<"R", "m1">>, <<"S", "m2">>}

\* the Metadata instances whose content a behaviour of SpecMeta changes
MetaMutable == {"m1", CopyIds[1]}

NextMeta ==
    \/ \E self \in live, node \in live : AddToTree(self, node)
    \/ \E self \in live, node \in live, m \in MetaModes : Graft(self, node, m)
    \/ \E self \in live, m \in MetaModes : CutFromTree(self, m)
    \/ \E self \in live, p \in live, m \in MetaModes : CutThenGraft(self, p, m)
    \/ \E a \in MetaAssign : AssignMetadata(a[1], a[2])
    \/ \E b \in MetaMutable, v \in DataVals : MutateBundle(b, v)

InitMeta == InitWith(MetaPool)

SpecMeta == InitMeta /\ [][NextMeta]_vars

----------------------------------------------------------------------------
(* SpecStale: a client builds R -> x -> y -> z, moves branches, and builds *)
(* a second branch y2 -> z2 that re-uses the names of y and z.             *)

StalePool == {"x", "y", "z", "y2", "z2"}

\* the calls parent.add_to_tree(child) the client makes
StaleAdds == {<<"R", "x">>, <<"x", "y">>, <<"y", "z">>,
              <<"x", "y2">>, <<"y2", "z2">>}

\* the calls self.graft(node, m) the client makes
StaleGrafts == {<<"y", "S">>, <<"z", "S">>, <<"z", "x">>}

StaleModes == {"True", "copy"}

NextStale ==
    \/ \E a \in StaleAdds : AddToTree(a[1], a[2])
    \/ \E g \in StaleGrafts, m \in StaleModes : Graft(g[1], g[2], m)
    \/ AssignMetadata("S", "m1")

InitStale == InitWith(StalePool)

SpecStale == InitStale /\ [][NextStale]_vars

----------------------------------------------------------------------------
(* Vocabulary of the properties *)

\* the Root instances
IsRoot(n) == n \in RootIds \cup NewRootIds

\* the nodes held as entries of n's Tree
Children(n) == DictVals(tree[n])

RECURSIVE ReachFrom(_, _)
ReachFrom(S, k) ==
    IF k = 0 THEN S
    ELSE ReachFrom(S \cup UNION {Children(n) : n \in S}, k - 1)

\* the nodes reachable from n through children Trees, at any depth
Descendants(n) == ReachFrom(Children(n), Cardinality(Ids))

\* the Trees that hold n as an entry
Holders(n) == {p \in live : n \in Children(p)}

\* the Roots of the trees that n belongs to
TreeRoots(n) == {r \in live : IsRoot(r) /\ (n = r \/ n \in Descendants(r))}

\* the structure of every tree and every metadata mapping
Structure == <<live, name, root, treepath, tree, metadata, bundle>>

\* the entries of a Tree, without their order
Entries(d) == {d[i] : i \in 1..Len(d)}

----------------------------------------------------------------------------
(* C1: every node reachable from a Root R through children Trees has root  *)
(* identical to R, after any sequence of add_to_tree, graft, cut_from_tree *)
C1_ReachableNodesShareRoot ==
    \A r \in live : IsRoot(r) => \A n \in Descendants(r) : root[n] = r

(* C2: for every node m reachable from a Root, m's stored path is the path *)
(* of its actual parent followed by '/' and its name, so it spells the     *)
(* actual parent chain from the Root down to m                             *)
C2_PathsFollowParentChain ==
    \A r \in live : IsRoot(r) =>
        \A p \in {r} \cup Descendants(r) : \A n \in Children(p) :
            treepath[n] = treepath[p] \o <<"/">> \o name[n]

(* C3: no node is held as a child entry by two Trees, and a graft removes  *)
(* from the Tree that held the grafted node that node and no other node    *)
C3_OneHolderAndGraftRemovesOnlySelf ==
    [][/\ \A n \in live' : Cardinality(Holders(n)') <= 1
       /\ ret'.op = "graft" =>
              \A p \in live : ret'.self \in DictVals(tree[p]) =>
                  DictVals(tree[p]) \ DictVals(tree'[p]) \subseteq {ret'.self}
      ]_vars

(* C4: with x a direct child of Root R (path '/x') and S another Root,     *)
(* x.graft(S, merge_metadata=False) returns S, x becomes a child of S with *)
(* root S, R no longer holds x, and S's metadata is unchanged              *)
C4_GraftDirectChildOntoOtherRoot ==
    [][LET x == ret'.self
           S == ret'.arg
           R == root[x]
       IN  ( /\ ret'.op = "graft" /\ ret'.mode = "False"
             /\ ~IsRoot(x) /\ R # None /\ IsRoot(R) /\ x \in Children(R)
             /\ treepath[x] = <<"/">> \o name[x]
             /\ IsRoot(S) /\ S # R /\ root[S] = S )
           => ( /\ ret'.err = "none" /\ ret'.val = S
                /\ DictHas(tree'[S], name[x]) /\ DictGet(tree'[S], name[x]) = x
                /\ root'[x] = S
                /\ x \notin DictVals(tree'[R])
                /\ metadata'[S] = metadata[S] )
      ]_vars

(* C5: for every node x attached below a Root, at any depth,               *)
(* cut_from_tree returns a new Root N, distinct from x's previous root and *)
(* named after x, whose Tree holds exactly x under x's name; x leaves its  *)
(* former parent and the rest of the former tree is unchanged              *)
C5_CutReturnsNewRootHoldingSelf ==
    [][LET x == ret'.self
           N == ret'.val
       IN  ( /\ ret'.op = "cut"
             /\ ~IsRoot(x) /\ root[x] # None
             /\ x \in Descendants(root[x]) /\ Cardinality(Holders(x)) = 1 )
           => ( /\ ret'.err = "none"
                /\ IsRoot(N) /\ N \notin live /\ N \in live' /\ N # root[x]
                /\ name'[N] = name[x]
                /\ tree'[N] = <<[k |-> name[x], v |-> x]>>
                /\ \A p \in live :
                       /\ x \notin DictVals(tree'[p])
                       /\ Entries(tree'[p]) = Entries(tree[p]) \ {[k |-> name[x], v |-> x]} )
      ]_vars

(* C6: for every node x attached below a Root with parent p,               *)
(* x.cut_from_tree(mode) followed at once by x.graft(p, mode) succeeds and *)
(* restores the tree: x is a child of p again, every Tree holds the same   *)
(* entries, x has the same root and path, and the metadata mappings of the *)
(* Roots that existed before are unchanged                                 *)
C6_CutThenGraftBackRestores ==
    [][LET x == ret'.self
           p == ret'.arg
       IN  ( /\ ret'.op = "cut+graft" /\ ret'.mode \in {"True", "False"}
             /\ ~IsRoot(x) /\ root[x] # None /\ root[p] = root[x]
             /\ x \in Descendants(root[x]) /\ Holders(x) = {p} )
           => ( /\ ret'.err = "none"
                /\ \A n \in live : Entries(tree'[n]) = Entries(tree[n])
                /\ root'[x] = root[x] /\ treepath'[x] = treepath[x]
                /\ \A n \in live : metadata'[n] = metadata[n] )
      ]_vars

(* C7: graft and cut_from_tree are atomic: when a call ends in an error,   *)
(* every node's root and path and every Tree and metadata mapping are as   *)
(* before the call                                                         *)
C7_FailedGraftOrCutChangesNothing ==
    [][(ret'.op \in {"graft", "cut"} /\ ret'.err # "none")
           => UNCHANGED Structure
      ]_vars

(* C8: add_to_tree fails when self is unrooted or the argument is rooted,  *)
(* graft fails when self or the target is unrooted, and the failed call    *)
(* leaves every root, path, Tree and metadata mapping unchanged            *)
C8_PreconditionFailuresMutateNothing ==
    [][( \/ /\ ret'.op = "add"
            /\ (root[ret'.self] = None \/ root[ret'.arg] # None)
         \/ /\ ret'.op = "graft"
            /\ (root[ret'.self] = None \/ root[ret'.arg] = None) )
           => (ret'.err = "AssertionError" /\ UNCHANGED Structure)
      ]_vars

\* add_to_tree has refused a node that is rooted in another tree
C8_Witness ==
    /\ ret.op = "add" /\ ret.err = "AssertionError"
    /\ root[ret.self] # None /\ root[ret.arg] # None
    /\ root[ret.arg] # root[ret.self] /\ ~IsRoot(ret.arg)
    /\ ret.arg \in Children(root[ret.arg])

(* C9: after a successful graft of a node of the tree of R_old onto a node *)
(* of the tree of R_new: in mode True every bundle of R_old is held by     *)
(* R_new under its name, as the same instance; in mode False the metadata  *)
(* mapping of R_new is as before; in both modes the bundles of R_new under *)
(* names that R_old does not have are kept                                 *)
C9_MergeModesTransferOldRootBundles ==
    [][(ret'.op = "graft" /\ ret'.err = "none") =>
           \A old \in TreeRoots(ret'.self), new \in TreeRoots(ret'.arg) :
               /\ ret'.mode = "True" =>
                      \A e \in Entries(metadata[old]) :
                          /\ DictHas(metadata'[new], e.k)
                          /\ DictGet(metadata'[new], e.k) = e.v
               /\ ret'.mode = "False" => metadata'[new] = metadata[new]
               /\ ret'.mode \in {"True", "False"} =>
                      \A e \in Entries(metadata[new]) :
                          ~DictHas(metadata[old], e.k) =>
                              e \in Entries(metadata'[new])
      ]_vars

(* C10: after a successful graft in mode 'copy' between two different      *)
(* trees, for every bundle of the source root the destination root holds   *)
(* under the same name a bundle with equal content that is another         *)
(* instance than the source root's                                         *)
C10_CopyModeGivesEqualDistinctBundles ==
    [][(ret'.op = "graft" /\ ret'.err = "none" /\ ret'.mode = "copy") =>
           \A old \in TreeRoots(ret'.self), new \in TreeRoots(ret'.arg) :
               old # new =>
                   \A e \in Entries(metadata[old]) :
                       /\ DictHas(metadata'[new], e.k)
                       /\ DictGet(metadata'[new], e.k) # e.v
                       /\ DictGet(metadata'[old], e.k) = e.v
                       /\ bundle'[DictGet(metadata'[new], e.k)] = bundle'[e.v]
      ]_vars

(* C11: the parent-to-child relation is acyclic after any sequence of      *)
(* add_to_tree, graft and cut_from_tree: no node is its own descendant     *)
C11_NoNodeIsItsOwnDescendant ==
    \A n \in live : n \notin Descendants(n)

(* C12: a node that is not a Root has a non-null root R exactly when it is *)
(* reachable from R through children Trees, and the nodes held by one Tree *)
(* have different names                                                    *)
C12_RootedIffReachable ==
    /\ \A n \in live : ~IsRoot(n) =>
           /\ root[n] # None => n \in Descendants(root[n])
           /\ \A r \in live : (IsRoot(r) /\ n \in Descendants(r)) => root[n] # None
    /\ \A p \in live : \A i, j \in 1..Len(tree[p]) :
           name[tree[p][i].v] = name[tree[p][j].v] => i = j

(* C13: every Root has root identical to itself and path '', and no Root   *)
(* is held as an entry of any Tree, whatever add_to_tree, graft and        *)
(* cut_from_tree calls were made on or with a Root                         *)
C13_RootsStayRoots ==
    \A r \in live : IsRoot(r) =>
        /\ root[r] = r
        /\ treepath[r] = <<>>
        /\ Holders(r) = {}

\* a graft of a Root onto a node of another tree has been attempted
C13_Witness ==
    /\ ret.op = "graft" /\ IsRoot(ret.self) /\ ret.err # "none"
    /\ ~IsRoot(ret.arg) /\ root[ret.arg] # None /\ root[ret.arg] # ret.self
    /\ Children(ret.self) # {}

----------------------------------------------------------------------------
(* Lookups in Trees: a chain R/x/y/y2 is built by add_to_tree and every    *)
(* path string up to MaxPathLen characters is looked up.                   *)

\* characters of the path strings
PathChars == {"/", "x", "y"}

\* longest path string
MaxPathLen == 5

\* the path strings
Paths == UNION {[1..n -> PathChars] : n \in 0..MaxPathLen}

\* the Trees that are asked: the one at the top of the chain
LookupTrees == {"R"}

\* the add_to_tree calls that build the trees
LookupAdds == {<<"R", "x">>, <<"x", "y">>, <<"y", "y2">>, <<"x", "y2">>}

\* tree[x] of Tree.__getitem__, on the Tree owned by node t
TreeGetitem(t, x) ==
    LET r == Tree_getitem(tree, t, x)
    IN  /\ ret' = [op |-> "getitem", self |-> t, arg |-> x, mode |-> None,
                   err |-> r.err, val |-> r.val, key |-> r.key]
        /\ UNCHANGED <<Structure, h5, linelevels>>

NextLookup ==
    \/ \E c \in LookupAdds : AddToTree(c[1], c[2])
    \/ \E t \in LookupTrees, x \in Paths : TreeGetitem(t, x)

InitLookup == InitWith(SmallPool)

SpecLookup == InitLookup /\ [][NextLookup]_vars

\* the segments of a path that are not empty
NonEmpty(l) == SelectSeq(l, LAMBDA seg : seg # <<>>)

\* the chains of at most k nodes below node t, each with the path made of
\* its names and with its last node
RECURSIVE Chains(_, _)
Chains(t, k) ==
    IF k = 0 THEN {}
    ELSE UNION {
           {[path |-> name[c], node |-> c]} \cup
           {[path |-> name[c] \o <<"/">> \o r.path, node |-> r.node] :
                r \in Chains(c, k - 1)} : c \in Children(t)}

\* the first position of segs whose segment is not a key of the Tree
\* reached by the segments before it, 0 when every segment is found
RECURSIVE FirstMissing(_, _, _)
FirstMissing(t, segs, i) ==
    IF i > Len(segs) THEN 0
    ELSE IF ~DictHas(tree[t], segs[i]) THEN i
    ELSE FirstMissing(DictGet(tree[t], segs[i]), segs, i + 1)

(* C14: for a chain n1 -> ... -> nk built through children Trees, looking  *)
(* up 'n1/.../nk' in the Tree that holds n1 returns the node nk itself     *)
(* and changes no Tree                                                     *)
C14_LookupOfChainPathReturnsLastNode ==
    [][ret'.op = "getitem" =>
         /\ \A c \in Chains(ret'.self, (MaxPathLen + 1) \div 2) :
                c.path = ret'.arg => (ret'.err = "none" /\ ret'.val = c.node)
         /\ UNCHANGED Structure]_vars

\* the three-node chain x/y/y has been looked up in R's Tree
C14_Witness ==
    /\ ret.op = "getitem" /\ ret.self = "R"
    /\ ret.arg = <<"x", "/", "y", "/", "y">>
    /\ ret.val = "y2" /\ tree["y"] = << [k |-> <<"y">>, v |-> "y2"] >>

(* C15: a lookup whose path has a segment that is absent fails with the    *)
(* key-not-found error, the error names the first segment, in path order,  *)
(* that is not in the Tree reached so far, and no Tree changes             *)
C15_MissingSegmentIsNamed ==
    [][ret'.op = "getitem" =>
         LET segs == NonEmpty(Split(ret'.arg))
             i == FirstMissing(ret'.self, segs, 1)
         IN  i # 0 => /\ ret'.err = "AssertionError"
                      /\ ret'.key = segs[i]
                      /\ UNCHANGED Structure]_vars

(* C16: a lookup ignores every empty segment of its path, whatever their   *)
(* number: the result is that of the path made of the other segments, and  *)
(* a path with only empty segments fails with the invalid-path error,      *)
(* which is not the key-not-found error                                    *)
C16_EmptySegmentsAreIgnored ==
    [][ret'.op = "getitem" =>
         LET segs == NonEmpty(Split(ret'.arg))
             r == Tree_getitem(tree, ret'.self, Join(segs))
         IN  IF segs = <<>>
             THEN ret'.err = "Exception"
             ELSE ret'.err = r.err /\ ret'.val = r.val /\ ret'.key = r.key]_vars

----------------------------------------------------------------------------
(* The dispatch method Node.tree(arg, **kwargs).  A Python value passed to *)
(* it is a record: kind says which of the fields is meant.                 *)

VNone == [kind |-> "none", node |-> None, str |-> <<>>, mode |-> None]

VBool(b) == [VNone EXCEPT !.kind = "bool", !.mode = b]

VNode(n) == [VNone EXCEPT !.kind = "node", !.node = n]

VStr(x) == [VNone EXCEPT !.kind = "str", !.str = x]

\* the tuple (n, m)
VPair(n, m) == [VNone EXCEPT !.kind = "pair", !.node = n, !.mode = m]

\* the keyword argument k=v
Kw(k, v) == [k |-> k, v |-> v]

\* a value used as merge_metadata
ModeOf(v) ==
    IF v.kind = "bool" THEN v.mode
    ELSE IF v.kind = "str" /\ v.str = <<"c", "o", "p", "y">> THEN "copy"
    ELSE "bogus"

\* the recursion depth at which Python raises RecursionError, made small:
\* a tree without a cycle is less deep than the number of its nodes
RecursionLimit == Cardinality(Ids)

\* a line whose '|' after the idx-th tab is taken from level idx + 2
Line_off_by_one(tablevel, ll, k) ==
    LET bar == IF ListHas(ll, 0) THEN <<"|">> ELSE <<>>
        tab[idx \in 0..tablevel] ==
            IF idx = 0 THEN <<>>
            ELSE tab[idx - 1] \o <<"TAB">> \o
                     (IF ListHas(ll, idx + 1) THEN <<"|">> ELSE <<>>)
    IN  bar \o tab[tablevel] \o <<"--">> \o k

\* a printed line: '|' and '\t' are one token each, then '--' and the key
Line(tablevel, ll, k) ==
    LET bar == IF ListHas(ll, 0) THEN <<"|">> ELSE <<>>
        tab[idx \in 0..tablevel] ==
            IF idx = 0 THEN <<>>
            ELSE tab[idx - 1] \o <<"TAB">> \o
                     (IF ListHas(ll, idx) THEN <<"|">> ELSE <<>>)
    IN  bar \o tab[tablevel] \o <<"--">> \o k

RECURSIVE PrintTree(_, _, _, _)
RECURSIVE PrintLoop(_, _, _, _, _)

\* Tree._print_tree_to_screen on the Tree of node t; st holds linelevels,
\* the lines printed so far and the exception raised
PrintTree(h, t, tablevel, st) ==
    IF tablevel >= RecursionLimit THEN [st EXCEPT !.err = "RecursionError"]
    ELSE PrintLoop(h, t, tablevel, 1,
                   IF ListHas(st.ll, tablevel) THEN st
                   ELSE [st EXCEPT !.ll = Append(@, tablevel)])

\* the loop of _print_tree_to_screen from the i-th key on
PrintLoop(h, t, tablevel, i, st) ==
    IF i > Len(h.tree[t]) \/ st.err # "none" THEN st
    ELSE LET k == h.tree[t][i].k
             st1 == [st EXCEPT !.out = Append(@, Line(tablevel, st.ll, k))]
         IN  IF i = Len(h.tree[t]) /\ ~ListHas(st1.ll, tablevel)
             THEN [st1 EXCEPT !.err = "ValueError"]
             ELSE LET st2 == IF i = Len(h.tree[t])
                             THEN [st1 EXCEPT !.ll = ListRemove(@, tablevel)]
                             ELSE st1
                      c == Tree_getitem(h.tree, t, k)
                      st3 == IF c.err # "none" THEN [st2 EXCEPT !.err = c.err]
                             ELSE PrintTree(h, c.val, tablevel + 1, st2)
                  IN  PrintLoop(h, t, tablevel, i + 1,
                                IF st3.err = "AttributeError"
                                THEN [st3 EXCEPT !.err = "none"] ELSE st3)

\* Tree.print on the Tree of node t
Tree_print(h, t) ==
    LET st == PrintTree(h, t, 0,
                  [ll |-> h.linelevels, out |-> << <<"/">> >>, err |-> "none"])
    IN  [h EXCEPT !.linelevels = st.ll, !.out = st.out,
                  !.err = st.err, !.val = None]

\* Node.show_tree
show_tree(h, self, rt) ==
    IF rt = "False" THEN Tree_print(h, self)
    ELSE IF h.root[self] = None THEN Fail(h, "AssertionError")
    ELSE Tree_print(h, h.root[self])

\* the result of get_from_tree put into the heap record
Returned(h, r) == [h EXCEPT !.err = r.err, !.val = r.val]

\* a keyword branch whose add=v adds self to v
TreeKeyword_add_reversed(h, self, k, v) ==
    IF k \notin {"show", "add", "get", "cut", "graft"}
    THEN Fail(h, "AssertionError")
    ELSE IF k = "show"
    THEN IF v.kind # "bool" THEN Fail(h, "AssertionError")
         ELSE show_tree(h, self, v.mode)
    ELSE IF k = "add"
    THEN IF v.kind # "node" THEN Fail(h, "NameError")
         ELSE add_to_tree(h, v.node, self)
    ELSE IF k = "get"
    THEN IF v.kind # "str" THEN Fail(h, "AssertionError")
         ELSE Returned(h, get_from_tree(h, self, v.str))
    ELSE IF k = "cut"
    THEN cut_from_tree(h, self, ModeOf(v))
    ELSE IF v.kind = "node" THEN graft(h, self, v.node, "True")
    ELSE IF v.kind = "pair" THEN graft(h, self, v.node, v.mode)
    ELSE IF v.kind = "str"
    THEN IF Len(v.str) # 2 THEN Fail(h, "AssertionError")
         ELSE IF h.root[self] = None THEN Fail(h, "AssertionError")
         ELSE Fail(h, "AttributeError")
    ELSE Fail(h, "TypeError")

\* the branch of Node.tree for the keyword argument k=v
TreeKeyword(h, self, k, v) ==
    IF k \notin {"show", "add", "get", "cut", "graft"}
    THEN Fail(h, "AssertionError")
    ELSE IF k = "show"
    THEN IF v.kind # "bool" THEN Fail(h, "AssertionError")
         ELSE show_tree(h, self, v.mode)
    ELSE IF k = "add"
    THEN IF v.kind # "node" THEN Fail(h, "NameError")
         ELSE add_to_tree(h, self, v.node)
    ELSE IF k = "get"
    THEN IF v.kind # "str" THEN Fail(h, "AssertionError")
         ELSE Returned(h, get_from_tree(h, self, v.str))
    ELSE IF k = "cut"
    THEN cut_from_tree(h, self, ModeOf(v))
    ELSE IF v.kind = "node" THEN graft(h, self, v.node, "True")
    ELSE IF v.kind = "pair" THEN graft(h, self, v.node, v.mode)
    ELSE IF v.kind = "str"
    THEN IF Len(v.str) # 2 THEN Fail(h, "AssertionError")
         ELSE IF h.root[self] = None THEN Fail(h, "AssertionError")
         ELSE Fail(h, "AttributeError")
    ELSE Fail(h, "TypeError")

\* Node.tree
Node_tree(h, self, arg, kwargs) ==
    IF arg.kind = "bool" THEN show_tree(h, self, arg.mode)
    ELSE IF arg.kind = "node" THEN add_to_tree(h, self, arg.node)
    ELSE IF arg.kind = "str" THEN Returned(h, get_from_tree(h, self, arg.str))
    ELSE IF arg.kind # "none" THEN Fail(h, "AssertionError")
    ELSE IF Len(kwargs) = 0 THEN show_tree(h, self, "False")
    ELSE IF Len(kwargs) # 1 THEN Fail(h, "AssertionError")
    ELSE TreeKeyword(h, self, kwargs[1].k, kwargs[1].v)

\* the positional arguments tried
TreeArgs == {VBool("True"), VNode("y"), VStr(<<"/", "x">>)}

\* the keyword arguments tried
TreeKwargs ==
    {<<>>,
     <<Kw("show", VBool("True"))>>,
     <<Kw("add", VNode("x"))>>,
     <<Kw("get", VStr(<<"y">>))>>,
     <<Kw("cut", VBool("False"))>>,
     <<Kw("graft", VNode("S"))>>,
     <<Kw("graft", VPair("R", "False"))>>,
     <<Kw("prune", VBool("True"))>>,
     <<Kw("add", VNode("y")), Kw("cut", VBool("False"))>>}

\* the keyword arguments tried together with a positional argument
TreeExtraKwargs ==
    {<<>>, <<Kw("cut", VBool("False"))>>, <<Kw("prune", VBool("True"))>>}

\* the calls tried: the pairs of arg and kwargs
TreeCalls == ({VNone} \X TreeKwargs) \cup (TreeArgs \X TreeExtraKwargs)

\* the nodes the calls are made on
TreePool == {"x", "y"}

\* the heap h after self.tree(arg, **kwargs) becomes the state
TreeCommit(h, self, arg, kwargs) ==
    /\ live' = h.live
    /\ name' = h.name
    /\ root' = h.root
    /\ treepath' = h.treepath
    /\ tree' = h.tree
    /\ metadata' = h.metadata
    /\ bundle' = h.bundle
    /\ linelevels' = h.linelevels
    /\ UNCHANGED h5
    /\ ret' = [op |-> "tree", self |-> self, arg |-> arg,
               kwargs |-> kwargs, mode |-> None,
               err |-> h.err, val |-> h.val]

\* a call self.tree(arg, **kwargs)
TreeCall(self, arg, kwargs) ==
    /\ (arg.kind = "none" /\ Len(kwargs) = 1 /\ kwargs[1].k = "cut")
           => Cardinality(live \cap NewRootIds) < MaxNewRoots
    /\ TreeCommit(Node_tree(Heap, self, arg, kwargs), self, arg, kwargs)

NextTree ==
    \E self \in live, c \in TreeCalls : TreeCall(self, c[1], c[2])

InitTree == InitWith(TreePool)

SpecTree == InitTree /\ [][NextTree]_vars

(* C17: a call of tree(...) that asks for more than one operation (two or  *)
(* more keywords, or a positional argument with a keyword) or that names   *)
(* an unknown operation fails with an error and changes nothing            *)
C17_DispatchRefusesSeveralOperations ==
    [][ret'.op = "tree" =>
         LET several ==
                 \/ Len(ret'.kwargs) >= 2
                 \/ ret'.arg.kind # "none" /\ Len(ret'.kwargs) >= 1
             unknown ==
                 \E i \in 1..Len(ret'.kwargs) :
                     ret'.kwargs[i].k \notin {"show", "add", "get", "cut", "graft"}
         IN  (several \/ unknown) =>
                 ret'.err # "none" /\ UNCHANGED Structure]_vars

----------------------------------------------------------------------------
(* Writing nodes into an h5py container and reading them back.  h5py and   *)
(* Metadata.to_h5 / Metadata.from_h5 live outside tree.py: a group is a    *)
(* record of its name, its attributes and its '_metadata' sub-group, and a *)
(* bundle is written as its name and its content.                          *)

\* class_io_utils.EMD_group_types
EMD_group_types == {"node", "root", "metadatabundle"}

\* self.__class__.__name__
ClassOf(n) == IF IsRoot(n) THEN "Root" ELSE "Node"

\* cls._emd_group_type: the class attribute, which Root does not redefine
\* (Root.__init__ assigns the attribute of the instance)
ClassGroupType(cls) == "node"

\* a basename that keeps the whole path
Basename_whole(s) == s

\* os.path.basename
Basename(s) == LET l == Split(s) IN l[Len(l)]

\* the heap record together with the container
HeapIO == Heap @@ [h5 |-> h5]

\* the statement self._metadata[k].name = k for every item of the node
RenameBundles(h, self) ==
    LET items == h.metadata[self]
    IN  [h EXCEPT !.bundle =
            [b \in AllBundleIds |->
                IF \E i \in 1..Len(items) : items[i].v = b
                THEN [h.bundle[b] EXCEPT !.name =
                         items[CHOOSE i \in 1..Len(items) : items[i].v = b].k]
                ELSE h.bundle[b]]]

\* Node.to_h5 into the container; the value is the key of the new group
to_h5(h, self) ==
    LET gt == ClassGroupType(ClassOf(self))
    IN  IF gt \notin EMD_group_types THEN Fail(h, "AssertionError")
        ELSE IF DictHas(h.h5, h.name[self]) THEN Fail(h, "ValueError")
        ELSE LET h1 == RenameBundles(h, self)
                 items == h1.metadata[self]
                 grp == [name |-> <<"/">> \o h1.name[self],
                         attrs |-> <<[k |-> "emd_group_type", v |-> gt],
                                     [k |-> "python_class", v |-> ClassOf(self)]>>,
                         hasmd |-> Len(items) > 0,
                         md |-> [i \in 1..Len(items) |->
                                    [k |-> h1.bundle[items[i].v].name,
                                     v |-> h1.bundle[items[i].v].data]]]
             IN  [h1 EXCEPT !.h5 = DictSet(@, h1.name[self], grp),
                            !.err = "none", !.val = h1.name[self]]

\* Node instances made by from_h5, in the order they are made
NewNodeSeq == <<"y", "z", "y2", "z2">>

\* most Node instances made by from_h5
MaxLoads == 1

Loaded(h) == {i \in 1..Len(NewNodeSeq) : NewNodeSeq[i] \in h.live}

NextNode(h) == NewNodeSeq[Cardinality(Loaded(h)) + 1]

\* Node.__init__
NewNode(h, n, nm) ==
    [h EXCEPT !.live = @ \cup {n}, !.name[n] = nm, !.root[n] = None,
              !.treepath[n] = NoPath, !.tree[n] = <<>>, !.metadata[n] = <<>>]

NextLoad(bd) ==
    LoadIds[Cardinality({i \in 1..Len(LoadIds) : bd[LoadIds[i]] # NoBundle}) + 1]

\* the orders in which a group of k members can be iterated
Orders(k) ==
    {p \in [1..k -> 1..k] : \A i, j \in 1..k : p[i] = p[j] => i = j}

\* the loop node.metadata = Metadata.from_h5(md) over the '_metadata' group
RECURSIVE LoadLoop(_, _, _, _, _)
LoadLoop(h, n, md, ord, i) ==
    IF i > Len(ord) THEN h
    ELSE LET d == NextLoad(h.bundle)
             h1 == [h EXCEPT !.bundle[d] =
                        [name |-> md[ord[i]].k, data |-> md[ord[i]].v]]
         IN  LoadLoop(SetMetadata(h1, n, d), n, md, ord, i + 1)

\* cls.from_h5 of the group stored under key; the value is the new node
from_h5(h, cls, key, ord) ==
    LET group == DictGet(h.h5, key)
    IN  IF ~DictHas(group.attrs, "emd_group_type")
        THEN Fail(h, "AssertionError")
        ELSE IF DictGet(group.attrs, "emd_group_type") \notin EMD_group_types
        THEN Fail(h, "AssertionError")
        ELSE LET nm == Basename(group.name)
                 n == IF cls = "Root" THEN NextRoot(h) ELSE NextNode(h)
                 h1 == IF cls = "Root" THEN NewRoot(h, n, nm)
                                       ELSE NewNode(h, n, nm)
                 h2 == IF group.hasmd THEN LoadLoop(h1, n, group.md, ord, 1)
                                      ELSE h1
             IN  [h2 EXCEPT !.err = "none", !.val = n]

CommitIO(h, op, self, arg, mode) ==
    /\ live' = h.live
    /\ name' = h.name
    /\ root' = h.root
    /\ treepath' = h.treepath
    /\ tree' = h.tree
    /\ metadata' = h.metadata
    /\ bundle' = h.bundle
    /\ linelevels' = h.linelevels
    /\ h5' = h.h5
    /\ ret' = [op |-> op, self |-> self, arg |-> arg, mode |-> mode,
               err |-> h.err, val |-> h.val]

\* room for one more instance of cls with k bundles
CanLoad(cls, k) ==
    /\ IF cls = "Root" THEN Cardinality(live \cap NewRootIds) < MaxNewRoots
                        ELSE Cardinality(Loaded(Heap)) < MaxLoads
    /\ Cardinality({i \in 1..Len(LoadIds) : bundle[LoadIds[i]] # NoBundle}) + k
           <= Len(LoadIds)

\* self.to_h5(f)
ToH5(self) == CommitIO(to_h5(HeapIO, self), "to_h5", self, None, None)

\* cls.from_h5(f[key])
FromH5(cls, key, ord) ==
    /\ DictHas(h5, key)
    /\ Len(ord) = Len(DictGet(h5, key).md)
    /\ CanLoad(cls, Len(ord))
    /\ CommitIO(from_h5(HeapIO, cls, key, ord), "from_h5", None, key, cls)

\* cls.from_h5(self.to_h5(f))
RoundTrip(self, cls, ord) ==
    /\ Len(ord) = Len(metadata[self])
    /\ CanLoad(cls, Len(ord))
    /\ LET h1 == to_h5(HeapIO, self)
       IN  CommitIO(IF h1.err # "none" THEN h1
                    ELSE from_h5(h1, cls, h1.val, ord),
                    "roundtrip", self, None, cls)

\* the nodes that are written
IONodes == {"x", "R"}

\* the node that is given metadata, and the bundles given to it
IOAssign == {<<"x", "m1">>, <<"x", "m2">>, <<"x", "m3">>}

NextIO ==
    \/ AddToTree("R", "x")
    \/ \E a \in IOAssign : AssignMetadata(a[1], a[2])
    \/ \E v \in DataVals : MutateBundle("m1", v)
    \/ \E self \in IONodes : ToH5(self)
    \/ \E cls \in {"Node", "Root"}, key \in {h5[i].k : i \in 1..Len(h5)} :
          \E ord \in Orders(Len(DictGet(h5, key).md)) : FromH5(cls, key, ord)
    \/ \E self \in IONodes, cls \in {"Node", "Root"} :
          \E ord \in Orders(Len(metadata[self])) : RoundTrip(self, cls, ord)

InitIO == InitWith({"x"})

SpecIO == InitIO /\ [][NextIO]_vars

\* the names and contents of the bundles of node n in heap fields md, bd
BundleSet(md, bd) == {[name |-> e.k, data |-> bd[e.v].data] : e \in Entries(md)}

(* C18: writing a node without children and reading the written group as  *)
(* a Node gives a new node with the same name and the same bundle names    *)
(* with equal contents; without bundles no '_metadata' group is written    *)
(* and reading succeeds; the new node has root None and no path            *)
C18_RoundTripKeepsNameAndBundles ==
    [][(/\ ret'.op = "roundtrip" /\ ret'.mode = "Node"
        /\ tree[ret'.self] = <<>>
        /\ ~DictHas(h5, name[ret'.self])) =>
         LET n == ret'.self
             new == ret'.val
         IN  /\ ret'.err = "none"
             /\ new \notin live /\ new \in live'
             /\ name'[new] = name[n]
             /\ BundleSet(metadata'[new], bundle') = BundleSet(metadata[n], bundle)
             /\ \A e \in Entries(metadata'[new]) : bundle'[e.v].name = e.k
             /\ Len(metadata'[new]) = Len(metadata[n])
             /\ DictGet(h5', name[n]).hasmd = (Len(metadata[n]) > 0)
             /\ root'[new] = None /\ treepath'[new] = NoPath
             /\ tree'[new] = <<>>]_vars

\* a rooted node with two bundles, one of them changed, was written and read
C18_Witness ==
    /\ ret.op = "roundtrip" /\ ret.mode = "Node" /\ ret.err = "none"
    /\ ret.self = "x" /\ root["x"] = "R"
    /\ Len(metadata[ret.val]) = 2
    /\ "m1" \in DictVals(metadata["x"]) /\ bundle["m1"].data = 1

(* C19: to_h5 of a Root creates a group whose emd_group_type attribute is  *)
(* 'root', to_h5 of a plain Node one whose attribute is 'node', and        *)
(* python_class is the name of the class of the node                       *)
C19_GroupTypeTagFollowsClass ==
    [][(ret'.op = "to_h5" /\ ret'.err = "none") =>
         LET g == DictGet(h5', name[ret'.self])
         IN  /\ DictGet(g.attrs, "emd_group_type") =
                    (IF IsRoot(ret'.self) THEN "root" ELSE "node")
             /\ DictGet(g.attrs, "python_class") = ClassOf(ret'.self)]_vars

(* C20: an assignment to node.metadata stores the bundle under its name,   *)
(* replacing the bundle that was stored under that name, and keeps every   *)
(* entry with another name; the metadata of other nodes does not change    *)
C20_MetadataLastWriteWins ==
    [][ret'.op = "metadata" =>
         LET n == ret'.self
             b == ret'.arg
         IN  /\ DictHas(metadata'[n], bundle[b].name)
             /\ DictGet(metadata'[n], bundle[b].name) = b
             /\ \A e \in Entries(metadata[n]) :
                    e.k # bundle[b].name => e \in Entries(metadata'[n])
             /\ {e.k : e \in Entries(metadata'[n])} =
                    {e.k : e \in Entries(metadata[n])} \cup {bundle[b].name}
             /\ Len(metadata'[n]) = Cardinality({e.k : e \in Entries(metadata'[n])})
             /\ \A m \in live \ {n} : metadata'[m] = metadata[m]]_vars

\* m3 was assigned to a node that held m2 under the same name and m1
C20_Witness ==
    /\ ret.op = "metadata" /\ ret.arg = "m3"
    /\ metadata[ret.self] = << [k |-> <<"b">>, v |-> "m3"], [k |-> <<"a">>, v |-> "m1"] >>

----------------------------------------------------------------------------
(* Node.get_from_tree on the nodes of the chain R/x/y *)

\* the path strings given to get_from_tree
GetPaths == {x \in Paths : Len(x) < MaxPathLen}

\* the nodes get_from_tree is called on
GetNodes == {"R", "x", "y"}

\* the add_to_tree calls that build the chain
GetAdds == {<<"R", "x">>, <<"x", "y">>}

\* self.get_from_tree(x)
GetFromTree(self, x) ==
    LET r == get_from_tree(Heap, self, x)
    IN  /\ ret' = [op |-> "get", self |-> self, arg |-> x, mode |-> None,
                   err |-> r.err, val |-> r.val, key |-> r.key]
        /\ UNCHANGED <<Structure, h5, linelevels>>

NextGet ==
    \/ \E c \in GetAdds : AddToTree(c[1], c[2])
    \/ \E self \in GetNodes, x \in GetPaths : GetFromTree(self, x)

InitGet == InitWith({"x", "y"})

SpecGet == InitGet /\ [][NextGet]_vars

(* C21: for every path string, the empty one included, get_from_tree gives *)
(* the result or the error of the Tree lookup of that string: in the Tree  *)
(* of self when the string does not start with '/', in the Tree of self's  *)
(* root when it does                                                       *)
C21_GetFromTreeDelegatesToLookup ==
    [][ret'.op = "get" =>
         LET x == ret'.arg
             absolute == Len(x) > 0 /\ x[1] = "/"
             t == IF absolute THEN root[ret'.self] ELSE ret'.self
         IN  t # None =>
                 LET r == Tree_getitem(tree, t, x)
                 IN  ret'.err = r.err /\ ret'.val = r.val /\ ret'.key = r.key]_vars

----------------------------------------------------------------------------
(* The direct calls that the forms of tree(...) stand for *)

\* the forms tree(n), tree(p), tree(add=n), tree(get=p), tree(cut=m),
\* tree(graft=n) and tree(graft=(n, m))
HasDirectCall(arg, kwargs) ==
    \/ arg.kind \in {"node", "str"} /\ Len(kwargs) = 0
    \/ /\ arg.kind = "none" /\ Len(kwargs) = 1
       /\ \/ kwargs[1].k = "add" /\ kwargs[1].v.kind = "node"
          \/ kwargs[1].k = "get" /\ kwargs[1].v.kind = "str"
          \/ kwargs[1].k = "cut" /\ kwargs[1].v.kind \in {"bool", "str"}
          \/ kwargs[1].k = "graft" /\ kwargs[1].v.kind \in {"node", "pair"}

\* the direct call of such a form, made on heap h
DirectCall(h, self, arg, kwargs) ==
    LET k == IF Len(kwargs) = 0 THEN None ELSE kwargs[1].k
        v == IF Len(kwargs) = 0 THEN arg ELSE kwargs[1].v
    IN  IF k = "cut" THEN cut_from_tree(h, self, ModeOf(v))
        ELSE IF k = "graft"
        THEN graft(h, self, v.node, IF v.kind = "node" THEN "True" ELSE v.mode)
        ELSE IF v.kind = "node" THEN add_to_tree(h, self, v.node)
        ELSE Returned(h, get_from_tree(h, self, v.str))

----------------------------------------------------------------------------
(* Printing trees of several shapes, one of them with a cycle *)

\* the add_to_tree calls that build the trees
ShowAdds == {<<"R", "x">>, <<"x", "y">>, <<"y", "y2">>, <<"R", "y">>, <<"S", "y2">>}

\* the graft calls: y onto the node below it, and onto the other tree
ShowGrafts == {<<"y", "y2">>, <<"y", "S">>}

\* self.show_tree(root=rt)
ShowTree(self, rt) ==
    LET h == show_tree(Heap, self, rt)
    IN  /\ linelevels' = h.linelevels
        /\ ret' = [op |-> "show", self |-> self, arg |-> None, mode |-> rt,
                   err |-> h.err, val |-> h.val, out |-> h.out,
                   linelevels |-> linelevels]
        /\ UNCHANGED <<Structure, h5>>

NextShow ==
    \/ \E c \in ShowAdds : AddToTree(c[1], c[2])
    \/ \E c \in ShowGrafts : Graft(c[1], c[2], "True")
    \/ \E self \in live, rt \in {"True", "False"} : ShowTree(self, rt)

InitShow == InitWith(SmallPool)

SpecShow == InitShow /\ [][NextShow]_vars

\* the node whose Tree show_tree(root=rt) prints
Shown(self, rt) == IF rt = "True" THEN root[self] ELSE self

\* the number of '\t' in a printed line
LineDepth(l) == Cardinality({i \in 1..Len(l) : l[i] = "TAB"})

\* the key at the end of a printed line
LineKey(l) ==
    LET i == CHOOSE i \in 1..Len(l) : l[i] = "--"
    IN  SubSeq(l, i + 1, Len(l))

\* the nodes below node t depth-first in insertion order, each with its
\* depth, not deeper than fuel levels
RECURSIVE Dfs(_, _, _)
RECURSIVE DfsFrom(_, _, _, _)

Dfs(t, d, fuel) == IF fuel = 0 THEN <<>> ELSE DfsFrom(t, d, fuel, 1)

DfsFrom(t, d, fuel, i) ==
    IF i > Len(tree[t]) THEN <<>>
    ELSE <<[depth |-> d, key |-> tree[t][i].k]>>
             \o Dfs(tree[t][i].v, d + 1, fuel - 1)
             \o DfsFrom(t, d, fuel, i + 1)

(* C23: after any add_to_tree, graft and cut_from_tree calls, show_tree    *)
(* from any node ends without an exception and prints, after the '/' line, *)
(* one line for every node reachable from the printed Tree, each once, at  *)
(* its depth, depth-first in insertion order                               *)
C23_RenderingPrintsEachNodeOnce ==
    [][(ret'.op = "show" /\ Shown(ret'.self, ret'.mode) # None) =>
         LET t == Shown(ret'.self, ret'.mode)
             lines == Tail(ret'.out)
             want == Dfs(t, 0, RecursionLimit)
         IN  /\ ret'.err = "none"
             /\ Len(lines) = Cardinality(Descendants(t))
             /\ Len(lines) = Len(want)
             /\ \A i \in 1..Len(lines) :
                    /\ LineDepth(lines[i]) = want[i].depth
                    /\ LineKey(lines[i]) = want[i].key]_vars

C25_OldRootKeepsItsMetadata ==
    [][(ret'.op \in {"graft", "cut"} /\ ret'.err = "none") =>
           LET news == IF ret'.op = "cut" THEN {ret'.val}
                       ELSE TreeRoots(ret'.arg)
           IN  \A old \in TreeRoots(ret'.self), new \in news :
                   old # new =>
                       /\ metadata'[old] = metadata[old]
                       /\ \A e \in Entries(metadata[old]) :
                              bundle'[e.v] = bundle[e.v]
                       /\ ret'.mode = "True" =>
                              \A e \in Entries(metadata'[old]) :
                                  /\ DictHas(metadata'[new], e.k)
                                  /\ DictGet(metadata'[new], e.k) = e.v
      ]_vars

====
